---- MODULE Spec2Model ----
(***************************************************************************)
(* Deployment-and-accounting engine of transition-scenarios:               *)
(* scripts/deployment_script.py and scripts/deployment_scripts.py.         *)
(* The ledger (a pandas DataFrame) is the record df; a column is a         *)
(* sequence over the steps 1..H (python index t is step t+1 here), a       *)
(* per-reactor column is held at the reactor's position in ar_dict, and a  *)
(* column the DataFrame does not have is the empty sequence.               *)
(***************************************************************************)
EXTENDS Integers, Sequences, FiniteSets, TLC

VARIABLES module, ar_dict, df, reactor_div, calls, status, results,
          cask_calcs, cask_result

vars == <<module, ar_dict, df, reactor_div, calls, status, results,
          cask_calcs, cask_result>>

(* ---------------------------- bounds ----------------------------------- *)
Horizon == 3
MaxDemand == 3
MaxCalls == 2
MaxYears == 3
MaxMass == 2

(* ---------------------------- inputs ----------------------------------- *)
Modules == {"deployment_script", "deployment_scripts"}

\* {reactor: [Power (MWe), capacity_factor (%), lifetime (yr)]}
\* The capacity factor is held in percent (100 is the factor 1).
Reactor(n, p, c, l) == [name |-> n, power |-> p, cf |-> c, life |-> l]

\* ad_reactors of the test suite (the distribution entry is not read here).
ad_reactors ==
    << Reactor("ReactorBig", 80, 100, 6),
       Reactor("ReactorMedium", 20, 100, 4),
       Reactor("ReactorSmall", 5, 100, 2) >>

\* test_dict['test_cap'] of the test suite.
test_cap == <<20, 79, 80, 81, 220, 640, 693, 950, 700>>

\* Small reactor designs the bounded fleets are built from.
Designs ==
    { Reactor("Big", 3, 100, 3),
      Reactor("Medium", 2, 50, 2),
      Reactor("Small", 1, 100, 1) }

\* A dict has distinct keys and keeps insertion order: a fleet is an
\* ordered selection of distinct designs.
Fleets ==
    UNION { { f \in [1..n -> Designs] :
                \A i, j \in 1..n : i # j => f[i].name # f[j].name }
            : n \in 1..Cardinality(Designs) }

DemandCurves == [1..Horizon -> 0..MaxDemand]

Range(s) == { s[i] : i \in DOMAIN s }

RECURSIVE SumSeq(_)
SumSeq(s) == IF s = <<>> THEN 0 ELSE Head(s) + SumSeq(Tail(s))

Zeros(n) == [t \in 1..n |-> 0]

NoColumns(n) == [i \in 1..n |-> <<>>]

\* pd.DataFrame.from_dict(test_dict): Year and the demand column only.
FreshLedger(demand, n) ==
    [ base        |-> demand,
      num         |-> NoColumns(n),
      Decom       |-> NoColumns(n),
      cap         |-> NoColumns(n),
      new_r_cap   |-> NoColumns(n),
      total_cap   |-> <<>>,
      new_cap     |-> <<>>,
      difference  |-> <<>>,
      percentage  |-> <<>> ]

Len_Year(d) == Len(d.base)

(* ------------------------- direct_decom -------------------------------- *)
\* The retirement step counted from the year before the commission.
decom_year_inclusive(year, life) == year + life - 1

\* decom_year = year + ar_dict[reactor][2]
decom_year_of(year, life) == year + life

\* A horizon test that also drops the last step of the ledger.
past_horizon_or_last(decom_year, len) == decom_year >= len

\* if decom_year >= len(df['Year']): pass   (steps are 1..len here)
past_horizon(decom_year, len) == decom_year > len

\* df.loc[decom_year, f'{reactor}Decom'] += df.loc[year, f'num_{reactor}']
decom_record(decomcol, numcol, year, decom_year) ==
    [decomcol EXCEPT ![decom_year] = @ + numcol[year]]

\* Retirement without the replacement unit.
decom_no_replace(numcol, year, decom_year) == numcol

\* Retirement that takes the units out of the count.
decom_remove(numcol, year, decom_year) ==
    [numcol EXCEPT ![decom_year] = @ - numcol[year]]

\* df.loc[decom_year, f'num_{reactor}'] += df.loc[year, f'num_{reactor}']
decom_replace(numcol, year, decom_year) ==
    [numcol EXCEPT ![decom_year] = @ + numcol[year]]

\* Retirements and replacements taken from the counts as they were before
\* the loop: a replacement unit never retires.
decom_years_no_cascade(numcol, decomcol, life, year) ==
    LET retired == [t \in DOMAIN numcol |->
                       IF t - life \in DOMAIN numcol THEN numcol[t - life] ELSE 0]
    IN [num |-> [t \in DOMAIN numcol |-> numcol[t] + retired[t]],
        Decom |-> retired, raised |-> "ok"]

\* The year loop for one reactor, from step `year` on.
RECURSIVE decom_years(_, _, _, _)
decom_years(numcol, decomcol, life, year) ==
    IF year > Len(numcol)
    THEN [num |-> numcol, Decom |-> decomcol, raised |-> "ok"]
    ELSE LET decom_year == decom_year_of(year, life)
         IN IF past_horizon(decom_year, Len(numcol))
            THEN decom_years(numcol, decomcol, life, year + 1)
            ELSE IF decom_year \notin 1..Len(numcol)
                 THEN [num |-> numcol, Decom |-> decomcol, raised |-> "KeyError"]
                 ELSE decom_years(
                          decom_replace(numcol, year, decom_year),
                          decom_record(decomcol, numcol, year, decom_year),
                          life, year + 1)

RECURSIVE direct_decom_from(_, _, _)
direct_decom_from(d, ar, i) ==
    IF i > Len(ar) THEN [df |-> d, raised |-> "ok"]
    ELSE LET created == [d EXCEPT !.Decom[i] = Zeros(Len_Year(d))]
         IN IF d.num[i] = <<>>
            THEN \* the num_ column is only looked up when a step retires
                 IF 1 + ar[i].life > Len_Year(d)
                 THEN direct_decom_from(created, ar, i + 1)
                 ELSE [df |-> created, raised |-> "KeyError"]
            ELSE LET r == decom_years(d.num[i], Zeros(Len_Year(d)), ar[i].life, 1)
                     after == [d EXCEPT !.num[i] = r.num, !.Decom[i] = r.Decom]
                 IN IF r.raised = "ok"
                    THEN direct_decom_from(after, ar, i + 1)
                    ELSE [df |-> after, raised |-> r.raised]

\* A pass that leaves a ledger alone once its Decom columns exist.
direct_decom_idempotent(d, ar) ==
    IF \E i \in 1..Len(ar) : d.Decom[i] # <<>>
    THEN [df |-> d, raised |-> "ok"]
    ELSE direct_decom_from(d, ar, 1)

direct_decom(d, ar) == direct_decom_from(d, ar, 1)

(* ------------------------ num_react_to_cap ----------------------------- *)
ColTimes(col, k) == [t \in DOMAIN col |-> col[t] * k]
ColPlus(a, b) == [t \in DOMAIN a |-> a[t] + b[t]]
ColMinus(a, b) == [t \in DOMAIN a |-> a[t] - b[t]]

\* A capacity column that counts the replacements of the year as new.
new_reactor_cap_with_replacements(numcol, decomcol, power) ==
    ColTimes(numcol, power)

\* df[f'new_{reactor}_cap'] =
\*     (df[f'num_{reactor}'] - df[f'{reactor}Decom']) * ar_dict[f'{reactor}'][0]
new_reactor_cap(numcol, decomcol, power) ==
    ColTimes(ColMinus(numcol, decomcol), power)

\* df[f'{reactor}_cap'] = df[f'num_{reactor}'] * ar_dict[f'{reactor}'][0]
\* (the capacity factor ar_dict[reactor][1] is not read)
reactor_cap(numcol, r) == ColTimes(numcol, r.power)

\* if 'total_cap' not in df
total_cap_missing(d) == d.total_cap = <<>>

\* scripts/deployment_script.py
RECURSIVE num_react_to_cap_from(_, _, _)
num_react_to_cap_from(d, ar, i) ==
    IF i > Len(ar) THEN [df |-> d, raised |-> "ok"]
    ELSE IF d.num[i] = <<>> \/ d.Decom[i] = <<>>
         THEN [df |-> d, raised |-> "KeyError"]
         ELSE LET newc == new_reactor_cap(d.num[i], d.Decom[i], ar[i].power)
                  totc == reactor_cap(d.num[i], ar[i])
              IN num_react_to_cap_from(
                     [d EXCEPT !.new_r_cap[i] = newc,
                               !.new_cap = ColPlus(@, newc),
                               !.cap[i] = totc,
                               !.total_cap = ColPlus(@, totc)],
                     ar, i + 1)

num_react_to_cap(d, ar) ==
    num_react_to_cap_from(
        IF total_cap_missing(d)
        THEN [d EXCEPT !.total_cap = Zeros(Len_Year(d)),
                       !.new_cap = Zeros(Len_Year(d))]
        ELSE d,
        ar, 1)

\* scripts/deployment_scripts.py
RECURSIVE num_react_to_cap_scripts_from(_, _, _)
num_react_to_cap_scripts_from(d, ar, i) ==
    IF i > Len(ar) THEN [df |-> d, raised |-> "ok"]
    ELSE IF d.num[i] = <<>>
         THEN [df |-> d, raised |-> "KeyError"]
         ELSE LET totc == reactor_cap(d.num[i], ar[i])
              IN num_react_to_cap_scripts_from(
                     [d EXCEPT !.cap[i] = totc,
                               !.total_cap = ColPlus(@, totc)],
                     ar, i + 1)

num_react_to_cap_scripts(d, ar) ==
    num_react_to_cap_scripts_from(
        IF total_cap_missing(d)
        THEN [d EXCEPT !.total_cap = Zeros(Len_Year(d))]
        ELSE d,
        ar, 1)

(* ------------------------ greedy_deployment ---------------------------- *)
\* Rounding up where the code rounds down.
ceil_div(remaining_cap, power) == (remaining_cap + power - 1) \div power

\* math.floor(remaining_cap / ar_dict[reactor][0]); the quotient by a zero
\* power is inf or nan, which math.floor refuses (see floor_raised), and no
\* count comes out of it.
floor_div(remaining_cap, power) ==
    IF power > 0 THEN remaining_cap \div power
    ELSE IF power < 0 THEN (-remaining_cap) \div (-power)
    ELSE 0

\* math.floor of the numpy quotient: inf gives OverflowError, nan ValueError.
floor_raised(remaining_cap, power) ==
    IF power # 0 THEN "ok"
    ELSE IF remaining_cap = 0 THEN "ValueError"
    ELSE "OverflowError"

\* As many units as cover the remaining capacity, rounded up.
reactor_div_round_up(power, remaining_cap) == ceil_div(remaining_cap, power)

\* At most one unit of a type per year.
reactor_div_single(power, remaining_cap) ==
    IF power > remaining_cap THEN 0 ELSE 1

\* scripts/deployment_script.py: reactor_div of one reactor
reactor_div_of(power, remaining_cap) ==
    IF power > remaining_cap THEN 0 ELSE floor_div(remaining_cap, power)

\* The remaining capacity left as it was.
remaining_unreduced(remaining_cap, div, power) == remaining_cap

\* remaining_cap -= reactor_div * ar_dict[reactor][0]
remaining_after(remaining_cap, div, power) == remaining_cap - div * power

\* The inner loop over the reactors for one year: the reactor_div of every
\* reactor from position i on.  scripts/deployment_script.py
RECURSIVE greedy_year(_, _, _)
greedy_year(ar, remaining_cap, i) ==
    IF i > Len(ar) THEN <<>>
    ELSE LET div == reactor_div_of(ar[i].power, remaining_cap)
         IN <<div>> \o greedy_year(
                           ar, remaining_after(remaining_cap, div, ar[i].power), i + 1)

\* scripts/deployment_scripts.py: the test and the update read the year's
\* demand, not the remaining capacity.
RECURSIVE greedy_year_scripts(_, _, _, _)
greedy_year_scripts(ar, base_year, remaining_cap, i) ==
    IF i > Len(ar) THEN <<>>
    ELSE IF ar[i].power > base_year
         THEN <<0>> \o greedy_year_scripts(ar, base_year, remaining_cap, i + 1)
         ELSE LET div == floor_div(remaining_cap, ar[i].power)
              IN <<div>> \o greedy_year_scripts(
                                ar, base_year, base_year - div * ar[i].power, i + 1)

\* The first reactor of the year whose math.floor raises (at = 0: none).
RECURSIVE greedy_year_raised(_, _, _)
greedy_year_raised(ar, remaining_cap, i) ==
    IF i > Len(ar) THEN [at |-> 0, raised |-> "ok"]
    ELSE IF ar[i].power > remaining_cap
         THEN greedy_year_raised(ar, remaining_cap, i + 1)
         ELSE IF floor_raised(remaining_cap, ar[i].power) # "ok"
              THEN [at |-> i, raised |-> floor_raised(remaining_cap, ar[i].power)]
              ELSE greedy_year_raised(
                       ar,
                       remaining_after(remaining_cap,
                                       floor_div(remaining_cap, ar[i].power),
                                       ar[i].power),
                       i + 1)

RECURSIVE greedy_year_raised_scripts(_, _, _, _)
greedy_year_raised_scripts(ar, base_year, remaining_cap, i) ==
    IF i > Len(ar) THEN [at |-> 0, raised |-> "ok"]
    ELSE IF ar[i].power > base_year
         THEN greedy_year_raised_scripts(ar, base_year, remaining_cap, i + 1)
         ELSE IF floor_raised(remaining_cap, ar[i].power) # "ok"
              THEN [at |-> i, raised |-> floor_raised(remaining_cap, ar[i].power)]
              ELSE greedy_year_raised_scripts(
                       ar, base_year,
                       base_year - floor_div(remaining_cap, ar[i].power) * ar[i].power,
                       i + 1)

\* Where the year loop stops: the first year, and in it the first reactor,
\* at which math.floor raises (year = 0: the loop runs to its end).
loop_raised(year_raised) ==
    LET bad == { t \in DOMAIN year_raised : year_raised[t].at # 0 }
    IN IF bad = {} THEN [year |-> 0, at |-> 0, raised |-> "ok"]
       ELSE LET t == CHOOSE u \in bad : \A v \in bad : u <= v
            IN [year |-> t, at |-> year_raised[t].at,
                raised |-> year_raised[t].raised]

greedy_loop_raised(base, ar) ==
    loop_raised([t \in 1..Len(base) |-> greedy_year_raised(ar, base[t], 1)])

greedy_loop_raised_scripts(base, ar) ==
    loop_raised([t \in 1..Len(base) |->
                    greedy_year_raised_scripts(ar, base[t], base[t], 1)])

\* The reactor_div that df.loc[year, f'num_{reactor}'] += reactor_div has
\* added before the loop stopped.
divs_written(divs, stop) ==
    [i \in DOMAIN divs |->
        [t \in DOMAIN divs[i] |->
            IF stop.year = 0 \/ t < stop.year \/ (t = stop.year /\ i < stop.at)
            THEN divs[i][t] ELSE 0]]

\* reactor_div[i][t] as the year loop computes it.
greedy_loop(base, ar) ==
    [i \in 1..Len(ar) |-> [t \in 1..Len(base) |-> greedy_year(ar, base[t], 1)[i]]]

greedy_loop_scripts(base, ar) ==
    [i \in 1..Len(ar) |->
        [t \in 1..Len(base) |-> greedy_year_scripts(ar, base[t], base[t], 1)[i]]]

\* if f'num_{reactor}' not in df: df[f'num_{reactor}'] = 0
with_num_columns(d, ar) ==
    [d EXCEPT !.num = [i \in 1..Len(ar) |->
                          IF d.num[i] = <<>> THEN Zeros(Len_Year(d)) ELSE d.num[i]]]

add_divs(d, divs) ==
    [d EXCEPT !.num = [i \in DOMAIN d.num |-> ColPlus(d.num[i], divs[i])]]

greedy_deployment(d, ar) ==
    LET stop == greedy_loop_raised(d.base, ar)
        divs == divs_written(greedy_loop(d.base, ar), stop)
        loop == add_divs(with_num_columns(d, ar), divs)
        dec  == direct_decom(loop, ar)
        res  == IF dec.raised = "ok" THEN num_react_to_cap(dec.df, ar) ELSE dec
    IN IF stop.raised # "ok"
       THEN [df |-> loop, raised |-> stop.raised, reactor_div |-> divs]
       ELSE [df |-> res.df, raised |-> res.raised, reactor_div |-> divs]

greedy_deployment_scripts(d, ar) ==
    LET stop == greedy_loop_raised_scripts(d.base, ar)
        divs == divs_written(greedy_loop_scripts(d.base, ar), stop)
        loop == add_divs(with_num_columns(d, ar), divs)
        dec  == direct_decom(loop, ar)
        res  == IF dec.raised = "ok" THEN num_react_to_cap_scripts(dec.df, ar) ELSE dec
    IN IF stop.raised # "ok"
       THEN [df |-> loop, raised |-> stop.raised, reactor_div |-> divs]
       ELSE [df |-> res.df, raised |-> res.raised, reactor_div |-> divs]

(* ------------------------ analyze_algorithm ---------------------------- *)
\* numpy scalars: a finite quotient is kept exactly as n/d (d > 0); a
\* division by zero gives inf, -inf or nan and raises nothing.
RECURSIVE GCD(_, _)
GCD(a, b) == IF b = 0 THEN a ELSE GCD(b, a % b)

Abs(x) == IF x < 0 THEN -x ELSE x

\* the value n/d, d > 0, in lowest terms
Finite(n, d) ==
    LET g == GCD(Abs(n), d)
    IN [kind |-> "finite", n |-> n \div g, d |-> d \div g]
NonFinite(k) == [kind |-> k, n |-> 0, d |-> 1]

np_divide(x, y) ==
    IF y > 0 THEN Finite(x, y)
    ELSE IF y < 0 THEN Finite(-x, -y)
    ELSE IF x > 0 THEN NonFinite("inf")
    ELSE IF x < 0 THEN NonFinite("-inf")
    ELSE NonFinite("nan")

\* a + b for two finite values, over their least common denominator
FiniteSum(a, b) ==
    LET l == (a.d \div GCD(a.d, b.d)) * b.d
    IN Finite(a.n * (l \div a.d) + b.n * (l \div b.d), l)

\* v * 100
np_times_100(v) == IF v.kind = "finite" THEN Finite(v.n * 100, v.d) ELSE v

\* 1 - v
np_one_minus(v) ==
    IF v.kind = "finite" THEN Finite(v.d - v.n, v.d)
    ELSE IF v.kind = "inf" THEN NonFinite("-inf")
    ELSE IF v.kind = "-inf" THEN NonFinite("inf")
    ELSE v

\* return df[proj] - df[base]
simple_diff(proj_col, base_col) == ColMinus(proj_col, base_col)

\* return (df['difference'] / df[base]) * 100
calc_percentage(difference, base) == np_times_100(np_divide(difference, base))

\* (1 - (total_cap_sum - total_reactor_cap)/total_cap_sum) * 100
percent_reactor_cap(total_cap_sum, total_reactor_cap) ==
    np_times_100(
        np_one_minus(np_divide(total_cap_sum - total_reactor_cap, total_cap_sum)))

\* A count of the steps that are not below.
count_not_below(col) == Cardinality({ t \in DOMAIN col : col[t] >= 0 })

\* (df['difference'] > 0).sum(), (... < 0).sum(), (... == 0).sum()
count_above(col) == Cardinality({ t \in DOMAIN col : col[t] > 0 })
count_below(col) == Cardinality({ t \in DOMAIN col : col[t] < 0 })
count_equal(col) == Cardinality({ t \in DOMAIN col : col[t] = 0 })

\* df['difference'][df['difference'] > 0].sum() and the same with < 0
sum_above(col) == SumSeq([t \in DOMAIN col |-> IF col[t] > 0 THEN col[t] ELSE 0])
sum_below(col) == SumSeq([t \in DOMAIN col |-> IF col[t] < 0 THEN col[t] ELSE 0])

NoResults ==
    [ returned         |-> FALSE,
      above_count      |-> 0,
      below_count      |-> 0,
      equal_count      |-> 0,
      above_percentage |-> NonFinite("nan"),
      below_percentage |-> NonFinite("nan"),
      total_above      |-> 0,
      total_below      |-> 0,
      percent_provided |-> <<>> ]

\* analyze_algorithm(df, base, 'total_cap', ar_dict) of
\* scripts/deployment_scripts.py.
analyze_algorithm(d, ar) ==
    IF d.total_cap = <<>>
    THEN [df |-> d, raised |-> "KeyError", results |-> NoResults]
    ELSE LET diff == simple_diff(d.total_cap, d.base)
             perc == [t \in DOMAIN diff |-> calc_percentage(diff[t], d.base[t])]
             scored == [d EXCEPT !.difference = diff, !.percentage = perc]
             above == count_above(diff)
             below == count_below(diff)
         IN IF \E i \in 1..Len(ar) : d.cap[i] = <<>>
            THEN [df |-> scored, raised |-> "KeyError", results |-> NoResults]
            ELSE [ df |-> scored,
                   raised |-> "ok",
                   results |->
                     [ returned         |-> TRUE,
                       above_count      |-> above,
                       below_count      |-> below,
                       equal_count      |-> count_equal(diff),
                       above_percentage |->
                           np_times_100(np_divide(above, Len(diff))),
                       below_percentage |->
                           np_times_100(np_divide(below, Len(diff))),
                       total_above      |-> sum_above(diff),
                       total_below      |-> sum_below(diff),
                       percent_provided |->
                           [i \in 1..Len(ar) |->
                               percent_reactor_cap(
                                   SumSeq(d.total_cap), SumSeq(d.cap[i]))] ] ]

(* --------------------------- waste_calcs ------------------------------- *)
\* v * k and v / k for a finite value and a whole constant (k > 0 in v / k)
np_times(v, k) == Finite(v.n * k, v.d)
np_over(v, k) == Finite(v.n, v.d * k)

\* Cask_Calcs.__init__: masses is the dict in insertion order, one
\* [year, mass] entry per key.
Cask_Calcs(elements, masses, g) ==
    [ elements   |-> elements,
      masses     |-> masses,
      cask_vol   |-> g.cask_vol,
      vol_prism  |-> g.vol_prism,
      mass_prism |-> g.mass_prism,
      vol_triso  |-> g.vol_triso,
      den_triso  |-> g.den_triso,
      den_kernel |-> g.den_kernel,
      vol_kernel |-> g.vol_kernel ]

\* prisms[i] = self.masses[year] / self.mass_prism
calculate_num_prisms(self) ==
    [i \in 1..Len(self.masses) |-> np_divide(self.masses[i].mass, self.mass_prism)]

\* trisos[year] = prisms[year] * self.den_triso
calculate_num_trisos(self) ==
    LET prisms == calculate_num_prisms(self)
    IN [year \in 1..Len(prisms) |-> np_times(prisms[year], self.den_triso)]

\* kernels[year] = trisos[year] * self.den_kernel
calculate_num_kernels(self) ==
    LET trisos == calculate_num_trisos(self)
    IN [year \in 1..Len(trisos) |-> np_times(trisos[year], self.den_kernel)]

\* An unknown selector packed as prisms.
select_elements_fallback(self) ==
    IF self.elements = "triso"
    THEN [raised |-> "ok", elems |-> calculate_num_trisos(self),
          vol |-> self.vol_triso]
    ELSE IF self.elements = "kernel"
    THEN [raised |-> "ok", elems |-> calculate_num_kernels(self),
          vol |-> self.vol_kernel]
    ELSE [raised |-> "ok", elems |-> calculate_num_prisms(self),
          vol |-> self.vol_prism]

\* The if/elif chain of calculate_casks; the else branch prints and binds
\* neither elems nor vol, so the next line raises UnboundLocalError.
select_elements(self) ==
    IF self.elements = "prism"
    THEN [raised |-> "ok", elems |-> calculate_num_prisms(self),
          vol |-> self.vol_prism]
    ELSE IF self.elements = "triso"
    THEN [raised |-> "ok", elems |-> calculate_num_trisos(self),
          vol |-> self.vol_triso]
    ELSE IF self.elements = "kernel"
    THEN [raised |-> "ok", elems |-> calculate_num_kernels(self),
          vol |-> self.vol_kernel]
    ELSE [raised |-> "UnboundLocalError", elems |-> <<>>, vol |-> 0]

\* elems[year] * vol / self.cask_vol
cask_volume(elem, vol, cask_vol) == np_over(np_times(elem, vol), cask_vol)

\* The year's volume alone, the remainder of the year before dropped.
without_leftover(volume, leftover) == volume

\* (elems[year] * vol / self.cask_vol) + leftovers[year - 1]
with_leftover(volume, leftover) == FiniteSum(volume, leftover)

\* Whole casks rounded up, the remainder what is left of the last one.
divmod_up(x) ==
    LET q == (x.n + x.d - 1) \div x.d
    IN [casks |-> q, leftover |-> Finite(x.n - q * x.d, x.d)]

\* divmod(x, 1)
divmod_1(x) ==
    [casks |-> x.n \div x.d, leftover |-> Finite(x.n % x.d, x.d)]

\* The year loop of calculate_casks from position `year` on.
RECURSIVE cask_years(_, _, _, _, _)
cask_years(elems, vol, cask_vol, year, leftover) ==
    IF year > Len(elems) THEN <<>>
    ELSE LET volume == cask_volume(elems[year], vol, cask_vol)
             packed == IF year = 1
                       THEN divmod_1(volume)
                       ELSE divmod_1(with_leftover(volume, leftover))
         IN <<packed>> \o cask_years(elems, vol, cask_vol, year + 1,
                                     packed.leftover)

NoCaskResult ==
    [ method |-> "none", raised |-> "ok", printed |-> FALSE,
      elems |-> <<>>, casks |-> <<>>, leftovers |-> <<>> ]

calculate_casks(self) ==
    LET sel == select_elements(self)
        packed == cask_years(sel.elems, sel.vol, self.cask_vol, 1, Finite(0, 1))
    IN IF sel.raised # "ok"
       THEN [ method |-> "calculate_casks", raised |-> sel.raised,
              printed |-> TRUE,
              elems |-> <<>>, casks |-> <<>>, leftovers |-> <<>> ]
       ELSE [ method |-> "calculate_casks", raised |-> "ok",
              printed |-> FALSE,
              elems |-> <<>>,
              casks |-> [i \in 1..Len(packed) |-> packed[i].casks],
              leftovers |-> [i \in 1..Len(packed) |-> packed[i].leftover] ]

\* The result of one of the calculate_num_ methods.
NumResult(method, elems) ==
    [ method |-> method, raised |-> "ok", printed |-> FALSE,
      elems |-> elems, casks |-> <<>>, leftovers |-> <<>> ]

\* No Cask_Calcs object has been constructed.
NoCaskCalcs == [elements |-> "none", masses |-> <<>>]

(* --------------------------- the program ------------------------------- *)
Init ==
    /\ module \in Modules
    /\ \E in \in (Fleets \X DemandCurves) \cup {<<ad_reactors, test_cap>>} :
          /\ ar_dict = in[1]
          /\ df = FreshLedger(in[2], Len(in[1]))
    /\ reactor_div = <<>>
    /\ calls = <<>>
    /\ status = "ok"
    /\ results = NoResults
    /\ cask_calcs = NoCaskCalcs
    /\ cask_result = NoCaskResult

\* Scoring reads the final table: it is the last call made on a ledger.
Scored == calls # <<>> /\ calls[Len(calls)] = "analyze_algorithm"

CanCall == status = "ok" /\ Len(calls) < MaxCalls /\ ~Scored

GreedyDeployment ==
    /\ CanCall
    /\ LET r == IF module = "deployment_script"
                THEN greedy_deployment(df, ar_dict)
                ELSE greedy_deployment_scripts(df, ar_dict)
       IN /\ df' = r.df
          /\ status' = r.raised
          /\ reactor_div' = r.reactor_div
    /\ calls' = Append(calls, "greedy_deployment")
    /\ UNCHANGED <<module, ar_dict, results>>
    /\ UNCHANGED <<cask_calcs, cask_result>>

DirectDecom ==
    /\ CanCall
    /\ LET r == direct_decom(df, ar_dict)
       IN /\ df' = r.df
          /\ status' = r.raised
    /\ calls' = Append(calls, "direct_decom")
    /\ UNCHANGED <<module, ar_dict, reactor_div, results>>
    /\ UNCHANGED <<cask_calcs, cask_result>>

NumReactToCap ==
    /\ CanCall
    /\ LET r == IF module = "deployment_script"
                THEN num_react_to_cap(df, ar_dict)
                ELSE num_react_to_cap_scripts(df, ar_dict)
       IN /\ df' = r.df
          /\ status' = r.raised
    /\ calls' = Append(calls, "num_react_to_cap")
    /\ UNCHANGED <<module, ar_dict, reactor_div, results>>
    /\ UNCHANGED <<cask_calcs, cask_result>>

\* analyze_algorithm exists in scripts/deployment_scripts.py only.
AnalyzeAlgorithm ==
    /\ status = "ok" /\ ~Scored /\ Len(calls) <= MaxCalls
    /\ module = "deployment_scripts"
    /\ LET r == analyze_algorithm(df, ar_dict)
       IN /\ df' = r.df
          /\ status' = r.raised
          /\ results' = r.results
    /\ calls' = Append(calls, "analyze_algorithm")
    /\ UNCHANGED <<module, ar_dict, reactor_div>>
    /\ UNCHANGED <<cask_calcs, cask_result>>

Next == GreedyDeployment \/ DirectDecom \/ NumReactToCap \/ AnalyzeAlgorithm

Spec == Init /\ [][Next]_vars

\* The same program called with a fleet configuration that is empty or has
\* a type of non-positive power or lifetime.
MalformedDesigns ==
    { Reactor("Zero", 0, 100, 1),
      Reactor("Negative", -2, 100, 2),
      Reactor("Ageless", 1, 100, 0),
      Reactor("Expired", 1, 100, -1) }

MalformedFleets ==
    {<<>>}
    \cup { <<m>> : m \in MalformedDesigns }
    \cup { <<Reactor("Big", 3, 100, 3), m>> : m \in MalformedDesigns }
    \cup { <<m, Reactor("Big", 3, 100, 3)>> : m \in MalformedDesigns }

InitMalformed ==
    /\ module \in Modules
    /\ \E fleet \in MalformedFleets, demand \in DemandCurves :
          /\ ar_dict = fleet
          /\ df = FreshLedger(demand, Len(fleet))
    /\ reactor_div = <<>>
    /\ calls = <<>>
    /\ status = "ok"
    /\ results = NoResults
    /\ cask_calcs = NoCaskCalcs
    /\ cask_result = NoCaskResult

SpecMalformed == InitMalformed /\ [][Next]_vars

\* The cask calculations: an object of class Cask_Calcs and its methods.
Levels == {"prism", "triso", "kernel"}
Selectors == Levels \cup {"pebble"}

Geometries ==
    { [ cask_vol |-> 4, vol_prism |-> 3, mass_prism |-> 1,
        vol_triso |-> 1, den_triso |-> 2, den_kernel |-> 3, vol_kernel |-> 1 ],
      [ cask_vol |-> 3, vol_prism |-> 5, mass_prism |-> 2,
        vol_triso |-> 2, den_triso |-> 3, den_kernel |-> 2, vol_kernel |-> 1 ] }

\* The keys of a masses dict in every insertion order.
YearOrders ==
    UNION { { o \in [1..n -> 1..n] : \A i, j \in 1..n : o[i] = o[j] => i = j }
            : n \in 0..MaxYears }

MassMappings ==
    UNION { { [i \in DOMAIN o |-> [year |-> o[i], mass |-> m[i]]]
              : m \in [DOMAIN o -> 0..MaxMass] }
            : o \in YearOrders }

InitCasks ==
    /\ module = "deployment_script"
    /\ ar_dict = <<>>
    /\ df = FreshLedger(<<>>, 0)
    /\ reactor_div = <<>>
    /\ calls = <<>>
    /\ status = "ok"
    /\ results = NoResults
    /\ \E elements \in Selectors, masses \in MassMappings, g \in Geometries :
          cask_calcs = Cask_Calcs(elements, masses, g)
    /\ cask_result = NoCaskResult

CalculateNumPrisms ==
    /\ cask_result' = NumResult("calculate_num_prisms",
                                calculate_num_prisms(cask_calcs))
    /\ UNCHANGED <<module, ar_dict, df, reactor_div, calls, status, results,
                   cask_calcs>>

CalculateNumTrisos ==
    /\ cask_result' = NumResult("calculate_num_trisos",
                                calculate_num_trisos(cask_calcs))
    /\ UNCHANGED <<module, ar_dict, df, reactor_div, calls, status, results,
                   cask_calcs>>

CalculateNumKernels ==
    /\ cask_result' = NumResult("calculate_num_kernels",
                                calculate_num_kernels(cask_calcs))
    /\ UNCHANGED <<module, ar_dict, df, reactor_div, calls, status, results,
                   cask_calcs>>

CalculateCasks ==
    /\ cask_result' = calculate_casks(cask_calcs)
    /\ UNCHANGED <<module, ar_dict, df, reactor_div, calls, status, results,
                   cask_calcs>>

NextCasks ==
    \/ CalculateNumPrisms
    \/ CalculateNumTrisos
    \/ CalculateNumKernels
    \/ CalculateCasks

SpecCasks == InitCasks /\ [][NextCasks]_vars

(* ======================== properties =================================== *)
Steps == 1..Len_Year(df)
Types == 1..Len(ar_dict)
LastCall == IF calls = <<>> THEN "none" ELSE calls[Len(calls)]

\* The ledger was fresh and greedy_deployment has run on it once.
FirstGreedy == calls = <<"greedy_deployment">> /\ status = "ok"

\* The last call was greedy_deployment and it returned.
AfterGreedy == LastCall = "greedy_deployment" /\ status = "ok"

IsScenario == ar_dict = ad_reactors /\ df.base = test_cap

\* Capacity the greedy loop of the last greedy_deployment commissioned at t.
Commissioned(t) ==
    SumSeq([i \in Types |-> reactor_div[i][t] * ar_dict[i].power])

manual_cap == <<20, 75, 80, 80, 220, 640, 690, 950, 700>>

\* C1: on the test suite's scenario, greedy_deployment of
\* scripts/deployment_script.py on a fresh ledger returns a ledger with a
\* new_cap column equal to [20, 75, 80, 80, 220, 640, 690, 950, 700].
C1_ScenarioNewCap ==
    (IsScenario /\ module = "deployment_script" /\ FirstGreedy)
        => df.new_cap = manual_cap

C1_Witness ==
    /\ IsScenario /\ module = "deployment_script" /\ FirstGreedy
    /\ Len(df.new_cap) = 9 /\ df.new_cap[7] = 690

\* C2: in scripts/deployment_script.py the capacity the greedy loop
\* commissions at a step never exceeds the step's demand, and after the
\* first run on a fresh ledger new_cap reports exactly that capacity.
C2_GreedyUpperBound ==
    (module = "deployment_script" /\ AfterGreedy) =>
        \A t \in Steps :
            /\ Commissioned(t) <= df.base[t]
            /\ FirstGreedy => df.new_cap[t] = Commissioned(t)

C2_Witness ==
    /\ module = "deployment_script" /\ FirstGreedy /\ Len(ar_dict) = 3
    /\ \E t \in Steps : Commissioned(t) > 0 /\ Commissioned(t) < df.base[t]

\* C3: in scripts/deployment_scripts.py the capacity the greedy loop
\* commissions at a step never exceeds the step's demand.
C3_GreedyUpperBoundScripts ==
    (module = "deployment_scripts" /\ AfterGreedy) =>
        \A t \in Steps : Commissioned(t) <= df.base[t]

\* Every ordering of the entries of a fleet configuration.
Orderings(ar) ==
    { g \in [1..Len(ar) -> Range(ar)] :
        \A i, j \in 1..Len(ar) : i # j => g[i] # g[j] }

\* C4: greedy_deployment takes the types largest first, so the per-type
\* counts the greedy loop commissions are the same for every ordering of
\* the same fleet configuration entries.
C4_LargestFirst ==
    (module = "deployment_script" /\ FirstGreedy) =>
        \A g \in Orderings(ar_dict) :
            \A i \in Types, j \in Types :
                g[j].name = ar_dict[i].name
                    => greedy_loop(df.base, g)[j] = reactor_div[i]

\* C5: after num_react_to_cap on a ledger without capacity columns, each
\* per-type capacity is count * power * capacity_factor (the factor is
\* held in percent) and total_cap is the sum of the per-type capacities.
C5_CapacityFormula ==
    FirstGreedy =>
        \A t \in Steps :
            /\ \A i \in Types :
                  100 * df.cap[i][t]
                      = df.num[i][t] * ar_dict[i].power * ar_dict[i].cf
            /\ df.total_cap[t] = SumSeq([i \in Types |-> df.cap[i][t]])

\* C6: num_react_to_cap run again on a ledger it has already processed,
\* counts and configuration unchanged, leaves every capacity column as the
\* first run left it.
C6_CapacityIdempotent ==
    [][ ( /\ calls' = Append(calls, "num_react_to_cap")
          /\ status' = "ok"
          /\ ~total_cap_missing(df) )
        => ( /\ df'.cap = df.cap
             /\ df'.total_cap = df.total_cap
             /\ df'.new_r_cap = df.new_r_cap
             /\ df'.new_cap = df.new_cap ) ]_vars

NumColumnsExist(d) == \A i \in DOMAIN d.num : d.num[i] # <<>>

\* The <reactor>Decom entry direct_decom leaves at step t for lifetime life,
\* read off the count column numcol.
RetiredAt(numcol, life, t) == IF t > life THEN numcol[t - life] ELSE 0

\* C7: after direct_decom the units counted at step s of a type of
\* lifetime L are recorded as decommissioned at step s + L and nowhere
\* else (nowhere when s + L is past the ledger), the decommissioned count
\* of every step t < L is 0, and the call on a ledger with count columns
\* does not fail.
C7_RetirementTiming ==
    /\ (status = "ok" /\ LastCall \in {"greedy_deployment", "direct_decom"}) =>
          \A i \in Types : \A t \in Steps :
              df.Decom[i][t] = RetiredAt(df.num[i], ar_dict[i].life, t)
    /\ (Len(calls) >= 2 /\ calls[1] = "greedy_deployment"
            /\ LastCall \in {"greedy_deployment", "direct_decom"})
          => status = "ok"

C7_Witness ==
    /\ status = "ok" /\ Len(calls) = 2 /\ LastCall = "direct_decom"
    /\ \E i \in Types :
          /\ \E t \in Steps : t > ar_dict[i].life /\ df.Decom[i][t] > 0
          /\ \E s \in Steps :
                s + ar_dict[i].life > Len_Year(df) /\ df.num[i][s] > 0
          /\ \E t \in Steps : t <= ar_dict[i].life /\ df.num[i][t] > 0

\* The count of reactor i at step t before a call (0 while the column
\* does not exist yet).
CountBefore(i, t) == IF df.num[i] = <<>> THEN 0 ELSE df.num[i][t]

\* C8: direct_decom never lowers a count: at every step the count after
\* the pass is the count before it plus the <reactor>Decom entry of the
\* step, and that entry is the count at step t - L (0 when t - L is before
\* the ledger start).  Inside greedy_deployment the count before the pass
\* is the earlier count plus the reactor_div of the greedy loop.
C8_DecomPairing ==
    [][ /\ ( /\ calls' = Append(calls, "direct_decom")
             /\ status' = "ok"
             /\ NumColumnsExist(df) )
           => \A i \in Types : \A t \in Steps :
                 /\ df'.num[i][t] = df.num[i][t] + df'.Decom[i][t]
                 /\ df'.num[i][t] >= df.num[i][t]
                 /\ df'.Decom[i][t]
                       = RetiredAt(df'.num[i], ar_dict[i].life, t)
        /\ ( /\ calls' = Append(calls, "greedy_deployment")
             /\ status' = "ok" )
           => \A i \in Types : \A t \in Steps :
                 /\ df'.num[i][t]
                       = CountBefore(i, t) + reactor_div'[i][t] + df'.Decom[i][t]
                 /\ df'.Decom[i][t] >= 0
      ]_vars

C8_Witness ==
    /\ status = "ok" /\ calls = <<"greedy_deployment", "direct_decom">>
    /\ \E i \in Types : \E t \in Steps :
          df.Decom[i][t] > 1 /\ df.num[i][t] > df.Decom[i][t]

\* C9: after greedy_deployment the decommissioned units of a type, summed
\* over the horizon, never exceed the units of the type summed over the
\* horizon.
C9_DecomWithinCommissioned ==
    AfterGreedy =>
        \A i \in Types : SumSeq(df.Decom[i]) <= SumSeq(df.num[i])

C9_Witness ==
    /\ AfterGreedy
    /\ \E i \in Types :
          SumSeq(df.Decom[i]) > 0 /\ SumSeq(df.Decom[i]) < SumSeq(df.num[i])

\* C10: on the test suite's scenario greedy_deployment records the
\* decommissioning of ReactorBig at step index 8 only (ReactorBigDecom is
\* [0, 0, 0, 0, 0, 0, 0, 0, 1]); the unit was first deployed at step index 2.
C10_ScenarioBigDecom ==
    (IsScenario /\ FirstGreedy) =>
        /\ ar_dict[1].name = "ReactorBig"
        /\ df.Decom[1] = <<0, 0, 0, 0, 0, 0, 0, 0, 1>>
        /\ reactor_div[1][1] = 0 /\ reactor_div[1][2] = 0
        /\ reactor_div[1][3] = 1

C10_Witness ==
    /\ IsScenario /\ FirstGreedy
    /\ df.Decom[1][9] = 1 /\ df.num[1][9] = 9

\* C11: greedy_deployment run again, with the same configuration and
\* demand, on the ledger its first run populated ends with the ledger the
\* first run ended with.
C11_Determinism ==
    [][ ( /\ calls = <<"greedy_deployment">>
          /\ status = "ok"
          /\ calls' = <<"greedy_deployment", "greedy_deployment">> )
        => (status' = "ok" /\ df' = df) ]_vars

SmallestPower ==
    CHOOSE p \in { ar_dict[i].power : i \in Types } :
        \A i \in Types : p <= ar_dict[i].power

\* C12: at a step whose demand is 0 or below the power of the smallest
\* type the greedy loop commissions no unit of any type (after the first
\* run the counts of the step are the replacements alone), and
\* greedy_deployment raises nothing.
C12_BelowSmallestUnit ==
    LastCall = "greedy_deployment" =>
        /\ status = "ok"
        /\ \A t \in Steps : df.base[t] < SmallestPower =>
              \A i \in Types :
                  /\ reactor_div[i][t] = 0
                  /\ FirstGreedy => df.num[i][t] = df.Decom[i][t]

C12_Witness ==
    /\ FirstGreedy
    /\ \E t \in Steps :
          /\ df.base[t] > 0 /\ df.base[t] < SmallestPower
          /\ \E i \in Types : df.num[i][t] > 0
    /\ \E t \in Steps : df.base[t] = 0

\* Demand of step t still unmet when the greedy loop reaches reactor i.
RemainingBefore(i, t) ==
    df.base[t]
        - SumSeq([j \in 1..(i - 1) |-> reactor_div[j][t] * ar_dict[j].power])

\* C20: in scripts/deployment_script.py, with the types taken in
\* configuration order and the remaining demand reduced cumulatively, the
\* units commissioned of a type are 0 when its power exceeds the remaining
\* demand and floor(remaining / power) otherwise; after the first run the
\* ledger's counts less the replacements are these numbers.
C20_GreedyRule ==
    (module = "deployment_script" /\ AfterGreedy) =>
        \A t \in Steps : \A i \in Types :
            LET rem == RemainingBefore(i, t)
                p == ar_dict[i].power
                n == reactor_div[i][t]
            IN /\ n >= 0
               /\ p > rem => n = 0
               /\ p <= rem => (n * p <= rem /\ rem < (n + 1) * p)
               /\ FirstGreedy => df.num[i][t] - df.Decom[i][t] = n

C20_Witness ==
    /\ module = "deployment_script" /\ FirstGreedy /\ Len(ar_dict) = 3
    /\ \E t \in Steps :
          /\ reactor_div[1][t] > 0 /\ reactor_div[2][t] > 0
          /\ ar_dict[3].power > RemainingBefore(3, t)


(* ----------------------- the scoring report ---------------------------- *)
AfterScoring == LastCall = "analyze_algorithm"

NpKinds == {"finite", "inf", "-inf", "nan"}

RECURSIVE SharesSum(_)
SharesSum(shares) ==
    IF shares = <<>> THEN Finite(0, 1)
    ELSE FiniteSum(shares[1], SharesSum(Tail(shares)))

\* C13: whenever a score report is returned for a ledger whose summed total
\* capacity is non-zero, the per-type percentage shares of the total
\* capacity are finite and add up to exactly 100.
C13_SharesSumTo100 ==
    (AfterScoring /\ status = "ok" /\ SumSeq(df.total_cap) # 0) =>
        /\ \A i \in Types : results.percent_provided[i].kind = "finite"
        /\ SharesSum(results.percent_provided) = Finite(100, 1)

\* C14: when a scored ledger has a step of zero demand, the call either ends
\* in an error or marks that step's percent difference as undefined; it does
\* not return an ordinary report with the percentage left as a number, an
\* infinity or a NaN.
C14_ZeroDemandFlagged ==
    AfterScoring =>
        \A t \in Steps : df.base[t] = 0 =>
            \/ status # "ok"
            \/ df.percentage[t].kind \notin NpKinds

\* C15: when the summed total capacity of a scored ledger is zero, the call
\* either ends in an error or reports the shares as undefined; it does not
\* return shares that are numbers, infinities or NaNs.
C15_ZeroTotalFlagged ==
    (AfterScoring /\ df.total_cap # <<>> /\ SumSeq(df.total_cap) = 0) =>
        \/ status # "ok"
        \/ \A i \in Types : results.percent_provided[i].kind \notin NpKinds

(* --------------------- malformed configurations ------------------------ *)
Malformed(ar) ==
    \/ ar = <<>>
    \/ \E i \in 1..Len(ar) : ar[i].power <= 0 \/ ar[i].life <= 0

\* C16: greedy_deployment called on a fresh ledger with an empty fleet, or
\* with a type of power <= 0 or lifetime <= 0, ends in an error, and no
\* count column holds a count when it does.
C16_ConfigFailsFast ==
    (calls = <<"greedy_deployment">> /\ Malformed(ar_dict)) =>
        /\ status # "ok"
        /\ \A i \in Types : df.num[i] \in {<<>>, Zeros(Len_Year(df))}

(* -------------------------- cask schedule ------------------------------ *)
CaskYears == 1..Len(cask_calcs.masses)

\* calculate_casks was the last method called and it returned a schedule.
CasksReturned ==
    cask_result.method = "calculate_casks" /\ cask_result.raised = "ok"

\* Cask volumes one unit of mass fills at the selected packaging level,
\* as numerator and denominator.
LevelVolume ==
    IF cask_calcs.elements = "prism" THEN cask_calcs.vol_prism
    ELSE IF cask_calcs.elements = "triso"
    THEN cask_calcs.den_triso * cask_calcs.vol_triso
    ELSE cask_calcs.den_triso * cask_calcs.den_kernel * cask_calcs.vol_kernel

\* The cask-volume contribution of the i-th processed year.
Contribution(i) ==
    Finite(cask_calcs.masses[i].mass * LevelVolume,
           cask_calcs.mass_prism * cask_calcs.cask_vol)

Whole(k) == Finite(k, 1)

RECURSIVE SumFinite(_)
SumFinite(values) ==
    IF values = <<>> THEN Finite(0, 1)
    ELSE FiniteSum(values[1], SumFinite(Tail(values)))

\* C17: in a returned schedule, casks + leftover of the first processed year
\* equals that year's contribution, casks + leftover of every later year
\* equals its contribution plus the leftover of the year processed before
\* it, and all casks plus the last leftover equal all contributions.
C17_CarryForward ==
    CasksReturned =>
        /\ \A i \in CaskYears :
              FiniteSum(Whole(cask_result.casks[i]), cask_result.leftovers[i])
                  = IF i = 1 THEN Contribution(i)
                    ELSE FiniteSum(Contribution(i), cask_result.leftovers[i - 1])
        /\ CaskYears # {} =>
              FiniteSum(Whole(SumSeq(cask_result.casks)),
                        cask_result.leftovers[Len(cask_result.leftovers)])
                  = SumFinite([i \in CaskYears |-> Contribution(i)])

\* A schedule in which a leftover carried over completes a cask that the
\* year's own contribution would not fill, and the last leftover is not 0.
C17_Witness ==
    /\ CasksReturned
    /\ \E i \in CaskYears :
          /\ i > 1
          /\ cask_result.leftovers[i - 1].n > 0
          /\ cask_result.casks[i] > Contribution(i).n \div Contribution(i).d
    /\ cask_result.leftovers[Len(cask_result.leftovers)].n > 0

\* C18: in a returned schedule every leftover lies in [0, 1) and every cask
\* count is a whole number >= 0 (masses are >= 0, the constants > 0).
C18_RemainderBound ==
    CasksReturned =>
        \A i \in CaskYears :
            /\ cask_result.leftovers[i].kind = "finite"
            /\ 0 <= cask_result.leftovers[i].n
            /\ cask_result.leftovers[i].n < cask_result.leftovers[i].d
            /\ cask_result.casks[i] \in Nat

\* A schedule with a leftover strictly between 0 and 1 and a year of at
\* least one whole cask.
C18_Witness ==
    /\ CasksReturned
    /\ \E i \in CaskYears : cask_result.leftovers[i].n > 0
    /\ \E i \in CaskYears : cask_result.casks[i] > 0
    /\ \E i \in CaskYears : cask_result.leftovers[i].n = 0

\* C19: calculate_casks on an object whose selector is none of 'prism',
\* 'triso', 'kernel' reports the error and ends in an exception; it returns
\* no casks and no leftovers.
C19_InvalidSelector ==
    (cask_result.method = "calculate_casks" /\ cask_calcs.elements \notin Levels) =>
        /\ cask_result.raised # "ok"
        /\ cask_result.printed
        /\ cask_result.casks = <<>>
        /\ cask_result.leftovers = <<>>

C19_Witness ==
    /\ cask_result.method = "calculate_casks"
    /\ cask_calcs.elements \notin Levels
    /\ \E i \in CaskYears : cask_calcs.masses[i].mass > 0

(* ------------------------ second sweep of direct_decom ----------------- *)
\* C21: when direct_decom is invoked on a ledger that the direct_decom of
\* greedy_deployment has already processed, and that first pass recorded at
\* least one decommissioned unit, the second pass returns, takes no count
\* down and leaves some count strictly larger than it was.
C21_SecondPassAddsAgain ==
    [][ ( /\ FirstGreedy
          /\ calls' = <<"greedy_deployment", "direct_decom">>
          /\ \E i \in Types : \E t \in Steps : df.Decom[i][t] > 0 )
        => /\ status' = "ok"
           /\ \A i \in Types : \A t \in Steps : df'.num[i][t] >= df.num[i][t]
           /\ \E i \in Types : \E t \in Steps : df'.num[i][t] > df.num[i][t] ]_vars

\* After the second pass a count exceeds what the loop commissioned plus
\* what the pass records as retired: the first pass's replacements are in
\* it a second time.
C21_Witness ==
    /\ calls = <<"greedy_deployment", "direct_decom">>
    /\ status = "ok"
    /\ \E i \in Types : \E t \in Steps :
          /\ df.Decom[i][t] > 0
          /\ df.num[i][t] > reactor_div[i][t] + df.Decom[i][t]

(* ------------------------- scoring aggregates -------------------------- *)
StepsAbove == { t \in Steps : df.total_cap[t] > df.base[t] }
StepsBelow == { t \in Steps : df.total_cap[t] < df.base[t] }
StepsEqual == { t \in Steps : df.total_cap[t] = df.base[t] }

\* The report was returned for a ledger without a step of zero demand.
ScoredNonzeroDemand ==
    /\ AfterScoring
    /\ status = "ok"
    /\ \A t \in Steps : df.base[t] # 0

\* C22: in a report returned for a ledger of nonzero demand, difference is
\* achieved less demand at every step; the three counts are the numbers of
\* steps strictly above, strictly below and equal, and add up to the number
\* of steps; the two percentages are the counts over the number of steps
\* times 100; total_above and total_below are the sums of the positive and
\* of the negative differences and add up to the sum of all differences.
C22_ScoringAggregates ==
    ScoredNonzeroDemand =>
        /\ \A t \in Steps : df.difference[t] = df.total_cap[t] - df.base[t]
        /\ results.above_count = Cardinality(StepsAbove)
        /\ results.below_count = Cardinality(StepsBelow)
        /\ results.equal_count = Cardinality(StepsEqual)
        /\ results.above_count + results.below_count + results.equal_count
               = Len_Year(df)
        /\ results.above_percentage
               = Finite(100 * Cardinality(StepsAbove), Len_Year(df))
        /\ results.below_percentage
               = Finite(100 * Cardinality(StepsBelow), Len_Year(df))
        /\ results.total_above
               = SumSeq([t \in Steps |->
                           IF t \in StepsAbove THEN df.difference[t] ELSE 0])
        /\ results.total_below
               = SumSeq([t \in Steps |->
                           IF t \in StepsBelow THEN df.difference[t] ELSE 0])
        /\ results.total_above + results.total_below = SumSeq(df.difference)

\* A report with a step above, a step below and a step equal to demand.
C22_Witness ==
    /\ ScoredNonzeroDemand
    /\ results.above_count > 0
    /\ results.below_count > 0
    /\ results.equal_count > 0

\* C23: a call of analyze_algorithm leaves the ledger exactly as it was, no
\* column added, removed or changed, and leaves the fleet configuration
\* unchanged.
C23_ScoringReadOnly ==
    [][ calls' = Append(calls, "analyze_algorithm")
        => (df' = df /\ ar_dict' = ar_dict) ]_vars

(* --------------------------- order of the years ------------------------ *)
\* Positions in the masses mapping of the years smaller than the i-th one.
EarlierYears(i) ==
    { j \in CaskYears : cask_calcs.masses[j].year < cask_calcs.masses[i].year }

\* The position of the greatest year smaller than the i-th one.
YearBefore(i) ==
    CHOOSE j \in EarlierYears(i) :
        \A k \in EarlierYears(i) :
            cask_calcs.masses[k].year <= cask_calcs.masses[j].year

\* C24: in a returned schedule, whatever the insertion order of the years,
\* casks + leftover of a year equals its contribution plus the leftover of
\* the greatest smaller year (its contribution alone for the smallest year).
C24_IncreasingYearOrder ==
    CasksReturned =>
        \A i \in CaskYears :
            FiniteSum(Whole(cask_result.casks[i]), cask_result.leftovers[i])
                = IF EarlierYears(i) = {} THEN Contribution(i)
                  ELSE FiniteSum(Contribution(i),
                                 cask_result.leftovers[YearBefore(i)])

(* --------------------------- residual gap ------------------------------ *)
\* Demand the greedy pass left uncovered at step t.
Gap(t) == df.base[t] - df.new_cap[t]

\* C25: after greedy_deployment of scripts/deployment_script.py on a fresh
\* ledger, for a fleet in any configuration order, the gap between demand
\* and new_cap is at least 0 and strictly below the smallest power of the
\* fleet at every step.
C25_ResidualBound ==
    (module = "deployment_script" /\ FirstGreedy) =>
        \A t \in Steps : 0 <= Gap(t) /\ Gap(t) < SmallestPower

\* A fleet that is not configured largest first, with a step that leaves a
\* gap and a step that a commission covers exactly.
C25_Witness ==
    /\ module = "deployment_script"
    /\ FirstGreedy
    /\ \E i, j \in Types : i < j /\ ar_dict[i].power < ar_dict[j].power
    /\ \E t \in Steps : Gap(t) > 0
    /\ \E t \in Steps : Gap(t) = 0 /\ df.base[t] > 0

(* ----------------------- cascade of replacements ----------------------- *)
\* Units of type i the greedy loop commissioned a whole number k >= 1 of
\* lifetimes before step t.
Cascade(i, t) ==
    SumSeq([k \in 1..Len_Year(df) |->
               IF t - k * ar_dict[i].life >= 1
               THEN reactor_div[i][t - k * ar_dict[i].life]
               ELSE 0])

\* C26: after greedy_deployment on a fresh ledger, for every type of
\* lifetime L >= 1 and every step t, the decommissioned count at t is the
\* sum of the units the loop commissioned at t - L, t - 2L, ... and the
\* final count at t is the commissioned count at t plus that sum.
C26_ReplacementCascade ==
    FirstGreedy =>
        \A i \in Types : ar_dict[i].life >= 1 =>
            \A t \in Steps :
                /\ df.Decom[i][t] = Cascade(i, t)
                /\ df.num[i][t] = reactor_div[i][t] + Cascade(i, t)

\* A replacement that itself retires: units commissioned two lifetimes
\* before t are counted at t, next to units commissioned one lifetime
\* before.
C26_Witness ==
    /\ FirstGreedy
    /\ \E i \in Types : \E t \in Steps :
          /\ t - 2 * ar_dict[i].life >= 1
          /\ reactor_div[i][t - 2 * ar_dict[i].life] > 0
          /\ reactor_div[i][t - ar_dict[i].life] > 0
          /\ df.Decom[i][t] = reactor_div[i][t - ar_dict[i].life]
                                + reactor_div[i][t - 2 * ar_dict[i].life]

====
